---- MODULE Spec2Model ----
(***************************************************************************)
(* Variational EM kernels of the Bernoulli stochastic block model          *)
(* (src/src/SBM_bernoulli.cpp): complete log-likelihoods, closed-form      *)
(* M-step, E-steps and the objective/gradient of the covariate M-step.     *)
(*                                                                         *)
(* Numbers.  A C++ double is modelled exactly, as an extended real of the  *)
(* form  q + SUM_p e[p]*ln(p)  (q and the e[p] rationals, p a small prime) *)
(* or one of NaN, +Inf, -Inf with the IEEE-754 rules for them.  On this    *)
(* domain log and exp are computed exactly: log of a positive rational is  *)
(* its vector of prime exponents, exp of an integer exponent vector is the *)
(* rational it denotes.  Rounding is not modelled: "equal" below means     *)
(* equal as real numbers.  An operand outside the domain (a rational with  *)
(* another prime factor, exp of a non-integer exponent vector) stops the   *)
(* evaluation instead of yielding a value.                                 *)
(***************************************************************************)
EXTENDS Integers, Sequences, FiniteSets

\* ------------------------------------------------------------ bounds
N == 3      \* nodes of the graph
Q == 2      \* latent clusters
K == 1      \* covariates per dyad (slices of X)

Nodes    == 1..N
Clusters == 1..Q
Slices   == 1..K

VARIABLES Y, R, Z, theta, pi, log_lambda, M, Gamma, X, param, ret, hist, pc

inputs == <<Y, R, Z, theta, pi, log_lambda, M, Gamma, X, param>>
vars   == <<Y, R, Z, theta, pi, log_lambda, M, Gamma, X, param, ret, hist, pc>>

\* ------------------------------------------------------------ rationals
Abs(x) == IF x < 0 THEN -x ELSE x

RECURSIVE Gcd(_, _)
Gcd(a, b) == IF b = 0 THEN a ELSE Gcd(b, a % b)

\* the rational n/d in lowest terms with a positive denominator
Rat(n, d) ==
  LET s == IF d < 0 THEN -1 ELSE 1
      g == Gcd(Abs(n), Abs(d))
  IN  <<(s * n) \div g, (s * d) \div g>>

RatZ == <<0, 1>>
RatI(n) == <<n, 1>>
RAdd(a, b) == IF a[1] = 0 THEN b
              ELSE IF b[1] = 0 THEN a
              ELSE IF a[2] = 1 /\ b[2] = 1 THEN <<a[1] + b[1], 1>>
              ELSE LET g == Gcd(a[2], b[2])
                   IN  Rat(a[1] * (b[2] \div g) + b[1] * (a[2] \div g), (a[2] \div g) * b[2])
RNeg(a)    == <<-a[1], a[2]>>
RMul(a, b) == IF a[1] = 0 \/ b[1] = 0 THEN RatZ
              ELSE IF a[2] = 1 /\ b[2] = 1 THEN <<a[1] * b[1], 1>>
              ELSE LET g == Gcd(Abs(a[1]), b[2])
                       h == Gcd(Abs(b[1]), a[2])
                   IN  <<(a[1] \div g) * (b[1] \div h), (a[2] \div h) * (b[2] \div g)>>
RInv(a)    == IF a[1] < 0 THEN <<-a[2], -a[1]>> ELSE <<a[2], a[1]>>
RSign(a)   == IF a[1] > 0 THEN 1 ELSE IF a[1] < 0 THEN -1 ELSE 0

\* ------------------------------------------------------------ doubles
Primes == <<2, 3, 5>>
PIdx   == 1..Len(Primes)
ZeroE  == [i \in PIdx |-> RatZ]

\* evaluation stops here: the operand is outside the modelled domain
Unrepresentable == CHOOSE x \in {} : TRUE

Fin(q, e) == [k |-> "fin", q |-> q, e |-> e]
NaN  == [k |-> "nan",  q |-> RatZ, e |-> ZeroE]
PInf == [k |-> "pinf", q |-> RatZ, e |-> ZeroE]
NInf == [k |-> "ninf", q |-> RatZ, e |-> ZeroE]

Num(n, d) == Fin(Rat(n, d), ZeroE)
Int2D(n)  == Fin(RatI(n), ZeroE)
Zero == Int2D(0)
One  == Int2D(1)
Half == Num(1, 2)

IsFinite(v) == v.k = "fin"
IsRat(v)    == v.k = "fin" /\ v.e = ZeroE
IsIntE(e)   == \A i \in PIdx : e[i][2] = 1

RECURSIVE Pow(_, _)
Pow(b, k) == IF k = 0 THEN 1 ELSE b * Pow(b, k - 1)

RECURSIVE ProdPow(_, _, _)
\* product over the primes i..Len(Primes) of p^max(sgn*e[p], 0)
ProdPow(e, sgn, i) ==
  IF i > Len(Primes) THEN 1
  ELSE (IF sgn * e[i][1] > 0 THEN Pow(Primes[i], sgn * e[i][1]) ELSE 1)
       * ProdPow(e, sgn, i + 1)

\* exp(SUM_p e[p] ln p) as a rational, e an integer vector
ExpE(e) == IF IsIntE(e) THEN <<ProdPow(e, 1, 1), ProdPow(e, -1, 1)>>
           ELSE Unrepresentable

RECURSIVE Vp(_, _)
Vp(n, p) == IF n % p = 0 THEN 1 + Vp(n \div p, p) ELSE 0

\* the exponents of the modelled primes in n/d
LogExps(r) == [i \in PIdx |-> RatI(Vp(r[1], Primes[i]) - Vp(r[2], Primes[i]))]

\* n/d > 0 has no other prime factor
Smooth(r) == <<ProdPow(LogExps(r), 1, 1), ProdPow(LogExps(r), -1, 1)>> = r

\* ln(n/d), n/d > 0, as a vector of prime exponents
LogE(r) == IF Smooth(r) THEN LogExps(r) ELSE Unrepresentable

\* -1, 0, 1: the sign of a finite double
SignFin(v) ==
  IF v.e = ZeroE THEN RSign(v.q)
  ELSE IF v.q = RatZ
       THEN LET r == ExpE(v.e) IN
            IF r[1] > r[2] THEN 1 ELSE IF r[1] < r[2] THEN -1 ELSE 0
       ELSE Unrepresentable

Sign(v) == CASE v.k = "fin"  -> SignFin(v)
             [] v.k = "pinf" -> 1
             [] v.k = "ninf" -> -1
             [] OTHER        -> 0

Neg(v) == CASE v.k = "fin"  -> Fin(RNeg(v.q), [i \in PIdx |-> RNeg(v.e[i])])
            [] v.k = "pinf" -> NInf
            [] v.k = "ninf" -> PInf
            [] OTHER        -> NaN

Add(a, b) ==
  CASE a.k = "nan" \/ b.k = "nan" -> NaN
    [] a.k = "fin" /\ b.k = "fin" ->
         Fin(RAdd(a.q, b.q), [i \in PIdx |-> RAdd(a.e[i], b.e[i])])
    [] a.k = "fin" -> b
    [] b.k = "fin" -> a
    [] OTHER -> IF a.k = b.k THEN a ELSE NaN

Sub(a, b) == Add(a, Neg(b))

\* a finite double scaled by the rational c
Scale(c, v) == Fin(RMul(c, v.q), [i \in PIdx |-> RMul(c, v.e[i])])

Mul(a, b) ==
  CASE a.k = "nan" \/ b.k = "nan" -> NaN
    [] a.k = "fin" /\ b.k = "fin" ->
         IF a.e = ZeroE THEN Scale(a.q, b)
         ELSE IF b.e = ZeroE THEN Scale(b.q, a)
         ELSE Unrepresentable
    [] OTHER -> LET s == Sign(a) * Sign(b) IN
                IF s > 0 THEN PInf ELSE IF s < 0 THEN NInf ELSE NaN

\* IEEE division of two doubles without a logarithmic part
Div(a, b) ==
  CASE a.k = "nan" \/ b.k = "nan" -> NaN
    [] a.k = "fin" /\ b.k = "fin" ->
         IF ~(IsRat(a) /\ IsRat(b)) THEN Unrepresentable
         ELSE IF b.q[1] = 0
              THEN (IF a.q[1] > 0 THEN PInf ELSE IF a.q[1] < 0 THEN NInf ELSE NaN)
              ELSE Fin(RMul(a.q, RInv(b.q)), ZeroE)
    [] a.k = "fin" -> Zero
    [] b.k = "fin" -> LET s == Sign(a) * (IF Sign(b) < 0 THEN -1 ELSE 1) IN
                      IF s > 0 THEN PInf ELSE NInf
    [] OTHER -> NaN

\* std::log
Log(v) ==
  CASE v.k = "nan"  -> NaN
    [] v.k = "pinf" -> PInf
    [] v.k = "ninf" -> NaN
    [] OTHER -> IF ~IsRat(v) THEN Unrepresentable
                ELSE IF v.q[1] > 0 THEN Fin(RatZ, LogE(v.q))
                ELSE IF v.q[1] = 0 THEN NInf
                ELSE NaN

\* std::exp
Exp(v) ==
  CASE v.k = "nan"  -> NaN
    [] v.k = "pinf" -> PInf
    [] v.k = "ninf" -> Zero
    [] OTHER -> IF v.q = RatZ THEN Fin(ExpE(v.e), ZeroE) ELSE Unrepresentable

\* a > b on doubles (false when either is NaN)
Rank(v) == CASE v.k = "pinf" -> 1 [] v.k = "ninf" -> -1 [] OTHER -> 0
Gt(a, b) ==
  /\ a.k # "nan" /\ b.k # "nan"
  /\ IF a.k = "fin" /\ b.k = "fin" THEN SignFin(Sub(a, b)) > 0
     ELSE Rank(a) > Rank(b)

\* ------------------------------------------------------------ matrices
\* Dense matrices are functions row -> column -> double.  A sparse matrix
\* (arma::sp_mat) is a function row -> column -> integer whose stored
\* entries are the non-zero ones, iterated in column-major order.

RECURSIVE SumTo(_, _)
\* f[1] + ... + f[n], accumulated left to right
SumTo(f, n) == IF n = 0 THEN Zero ELSE Add(SumTo(f, n - 1), f[n])


RECURSIVE StoredFrom(_, _)
StoredFrom(A, k) ==
  IF k > N * N THEN <<>>
  ELSE LET row == ((k - 1) % N) + 1
           col == ((k - 1) \div N) + 1
       IN  (IF A[row][col] # 0 THEN << <<row, col>> >> ELSE <<>>) \o StoredFrom(A, k + 1)

\* sp_mat::begin() .. end(): the stored entries, column by column
Stored(A) == StoredFrom(A, 1)

\* accu(): the sum of all entries of a rows x cols matrix
Accu(A, rows, cols) ==
  SumTo([c \in 1..cols |-> SumTo([r \in 1..rows |-> A[r][c]], rows)], cols)

\* A % B, A / B and a function applied entry by entry (Q x Q operands)
Schur(A, B)  == [q \in Clusters |-> [l \in Clusters |-> Mul(A[q][l], B[q][l])]]
EDiv(A, B)   == [q \in Clusters |-> [l \in Clusters |-> Div(A[q][l], B[q][l])]]
Logit(th)    == [q \in Clusters |-> [l \in Clusters |-> Log(Div(th[q][l], Sub(One, th[q][l])))]]
Log1m_mut_sign(th) == [q \in Clusters |-> [l \in Clusters |-> Log(Sub(th[q][l], One))]]
Log1m(th)    == [q \in Clusters |-> [l \in Clusters |-> Log(Sub(One, th[q][l]))]]
Trans(A)     == [q \in Clusters |-> [l \in Clusters |-> A[l][q]]]
SpTrans(A)   == [i \in Nodes |-> [j \in Nodes |-> A[j][i]]]

\* sparse * dense: A * Zm, a sum over the stored entries of each row of A
SpMul(A, Zm) ==
  [i \in Nodes |-> [q \in Clusters |->
     SumTo([j \in Nodes |-> IF A[i][j] # 0 THEN Mul(Int2D(A[i][j]), Zm[j][q]) ELSE Zero], N)]]

\* dense (N x Q) * dense (Q x Q)
MatMul(A, B) ==
  [i \in Nodes |-> [q \in Clusters |->
     SumTo([l \in Clusters |-> Mul(A[i][l], B[l][q])], Q)]]

\* Z.t() * A: dense transposed times sparse, Q x N
ZtA(Zm, A) ==
  [q \in Clusters |-> [j \in Nodes |->
     SumTo([i \in Nodes |-> IF A[i][j] # 0 THEN Mul(Zm[i][q], Int2D(A[i][j])) ELSE Zero], N)]]

\* Z.t() * A * Z, evaluated left to right: (Z.t() * A) * Z
ZtAZ(Zm, A) ==
  LET L == ZtA(Zm, A) IN
  [q \in Clusters |-> [l \in Clusters |->
     SumTo([j \in Nodes |-> Mul(L[q][j], Zm[j][l])], N)]]

\* accu(Z * log(pi)): Z (N x Q) times the column vector log(pi)
PriorTerm(Zm, p) ==
  SumTo([i \in Nodes |-> SumTo([q \in Clusters |-> Mul(Zm[i][q], Log(p[q]))], Q)], N)

\* ------------------------------------------------------------ likelihoods
EdgePart_nocovariate(Ym, Rm, Zm, th) ==
  <<Accu(Schur(ZtAZ(Zm, Ym), Logit(th)), Q, Q), Accu(Schur(ZtAZ(Zm, Rm), Log1m(th)), Q, Q)>>

vLL_complete_sparse_bernoulli_undirected_nocovariate(Ym, Rm, Zm, th, p) ==
  LET ab == EdgePart_nocovariate(Ym, Rm, Zm, th) IN
  Add(Add(Mul(Half, ab[1]), Mul(Half, ab[2])), PriorTerm(Zm, p))

vLL_complete_sparse_bernoulli_directed_nocovariate(Ym, Rm, Zm, th, p) ==
  LET ab == EdgePart_nocovariate(Ym, Rm, Zm, th) IN
  Add(Add(ab[1], ab[2]), PriorTerm(Zm, p))

\* ------------------------------------------------------------ closed-form M-step
\* faulty variants of the undirected closed form: the numerator taken from the lower
\* triangle of Y only; a zero denominator replaced by a zero result; the
\* denominator taken from the lower triangle of R only
LowerTri(A) == [i \in Nodes |-> [j \in Nodes |-> IF i > j THEN A[i][j] ELSE 0]]
M_step_mut_trimatl(Ym, Rm, Zm) == EDiv(ZtAZ(Zm, LowerTri(Ym)), ZtAZ(Zm, Rm))
M_step_mut_guarded(Ym, Rm, Zm) ==
  LET num == ZtAZ(Zm, Ym)
      den == ZtAZ(Zm, Rm)
  IN  [q \in Clusters |-> [l \in Clusters |->
         IF den[q][l] = Zero THEN Zero ELSE Div(num[q][l], den[q][l])]]
M_step_mut_halfdenominator(Ym, Rm, Zm) == EDiv(ZtAZ(Zm, Ym), ZtAZ(Zm, LowerTri(Rm)))

M_step_sparse_bernoulli_undirected_nocovariate(Ym, Rm, Zm) ==
  EDiv(ZtAZ(Zm, Ym), ZtAZ(Zm, Rm))

M_step_sparse_bernoulli_directed_nocovariate(Ym, Rm, Zm) ==
  EDiv(ZtAZ(Zm, Ym), ZtAZ(Zm, Rm))

M_step_sparse_bernoulli_directed_covariates(Ym, Rm, Zm) ==
  EDiv(ZtAZ(Zm, Ym), ZtAZ(Zm, Rm))

\* log(1 + exp(v))
Log1pExp(v) == Log(Add(One, Exp(v)))

\* the q,l double loop of one Y entry: Z(i,q) * Z(j,l) * (Gamma(q,l) + M(i,j))
YTerm_covariates(i, j, Mm, Zm, Gm) ==
  SumTo([q \in Clusters |-> SumTo([l \in Clusters |->
     Mul(Mul(Zm[i][q], Zm[j][l]), Add(Gm[q][l], Mm[i][j]))], Q)], Q)

\* the q,l double loop of one R entry: - Z(i,q) * Z(j,l) * log(1 + exp(Gamma(q,l) + M(i,j)))
RTerm_covariates(i, j, Mm, Zm, Gm) ==
  SumTo([q \in Clusters |-> SumTo([l \in Clusters |->
     Mul(Mul(Neg(Zm[i][q]), Zm[j][l]), Log1pExp(Add(Gm[q][l], Mm[i][j])))], Q)], Q)

\* for(; Yij != Yij_end; ++Yij) if (Yij.row() > Yij.col()) ...
LowerLoopY(Ym, Mm, Zm, Gm) ==
  LET s == Stored(Ym) IN
  SumTo([k \in 1..Len(s) |->
     IF s[k][1] > s[k][2] THEN YTerm_covariates(s[k][1], s[k][2], Mm, Zm, Gm) ELSE Zero], Len(s))

\* faulty variant: the loop over R without the triangular test
LowerLoopR_mut_all(Rm, Mm, Zm, Gm) ==
  LET s == Stored(Rm) IN
  SumTo([k \in 1..Len(s) |-> RTerm_covariates(s[k][1], s[k][2], Mm, Zm, Gm)], Len(s))

LowerLoopR(Rm, Mm, Zm, Gm) ==
  LET s == Stored(Rm) IN
  SumTo([k \in 1..Len(s) |->
     IF s[k][1] > s[k][2] THEN RTerm_covariates(s[k][1], s[k][2], Mm, Zm, Gm) ELSE Zero], Len(s))

\* the same loops without the triangular test (directed variant)
FullLoopY(Ym, Mm, Zm, Gm) ==
  LET s == Stored(Ym) IN
  SumTo([k \in 1..Len(s) |-> YTerm_covariates(s[k][1], s[k][2], Mm, Zm, Gm)], Len(s))

FullLoopR(Rm, Mm, Zm, Gm) ==
  LET s == Stored(Rm) IN
  SumTo([k \in 1..Len(s) |-> RTerm_covariates(s[k][1], s[k][2], Mm, Zm, Gm)], Len(s))

vLL_complete_sparse_bernoulli_undirected_covariates(Ym, Rm, Mm, Zm, Gm, p) ==
  Add(Add(PriorTerm(Zm, p), LowerLoopY(Ym, Mm, Zm, Gm)), LowerLoopR(Rm, Mm, Zm, Gm))

vLL_complete_sparse_bernoulli_directed_covariates(Ym, Rm, Mm, Zm, Gm, p) ==
  Add(Add(PriorTerm(Zm, p), FullLoopY(Ym, Mm, Zm, Gm)), FullLoopR(Rm, Mm, Zm, Gm))

\* ------------------------------------------------------------ E-step
RECURSIVE MaxTo(_, _)
\* arma max(): starts from -Inf and keeps an entry only when it compares greater
MaxTo(x, n) == IF n = 0 THEN NInf
               ELSE LET m == MaxTo(x, n - 1) IN IF Gt(x[n], m) THEN x[n] ELSE m

\* faulty variant: the row is exponentiated but not divided by its sum
Softmax_mut_unnormalised(x) ==
  LET m == MaxTo(x, Q) IN [q \in Clusters |-> Exp(Sub(x[q], m))]

\* x = exp(x - max(x)) / sum(exp(x - max(x)))
Softmax(x) ==
  LET m == MaxTo(x, Q)
      w == [q \in Clusters |-> Exp(Sub(x[q], m))]
      s == SumTo(w, Q)
  IN  [q \in Clusters |-> Div(w[q], s)]

\* log_tau.each_row() += log(pi)
AddLogPi(lt, p) == [i \in Nodes |-> [q \in Clusters |-> Add(lt[i][q], Log(p[q]))]]

MatAdd(A, B)    == [i \in Nodes |-> [q \in Clusters |-> Add(A[i][q], B[i][q])]]
MatPlus(A, c)   == [i \in Nodes |-> [q \in Clusters |-> Add(A[i][q], c)]]
EachRowSoftmax(lt) == [i \in Nodes |-> Softmax(lt[i])]

\* the matrix log_tau before the softmax (lines 195-196)
LogTau_undirected_nocovariate(Ym, Rm, Zm, th, p, ll) ==
  AddLogPi(MatPlus(MatAdd(MatMul(SpMul(Ym, Zm), Logit(th)),
                          MatMul(SpMul(Rm, Zm), Log1m(th))), ll), p)

E_step_sparse_bernoulli_undirected_nocovariate(Ym, Rm, Zm, th, p, ll) ==
  EachRowSoftmax(LogTau_undirected_nocovariate(Ym, Rm, Zm, th, p, ll))

\* the matrix log_tau before the softmax (lines 214-216)
LogTau_directed_nocovariate(Ym, Rm, Zm, th, p, ll) ==
  AddLogPi(MatPlus(
    MatAdd(MatAdd(MatAdd(MatMul(SpMul(Ym, Zm), Trans(Logit(th))),
                         MatMul(SpMul(Rm, Zm), Trans(Log1m(th)))),
                  MatMul(SpMul(SpTrans(Ym), Zm), Logit(th))),
           MatMul(SpMul(SpTrans(Rm), Zm), Log1m(th))), ll), p)

E_step_sparse_bernoulli_directed_nocovariate(Ym, Rm, Zm, th, p, ll) ==
  EachRowSoftmax(LogTau_directed_nocovariate(Ym, Rm, Zm, th, p, ll))

\* faulty variant: the penalty applied for the entries below the diagonal only
PenaltyVisit_mut_lower(lt, i, j, Mm, Zm, Gm) ==
  IF i > j
  THEN [lt EXCEPT ![i] = [q \in Clusters |->
          Sub(lt[i][q], SumTo([l \in Clusters |->
             Mul(Zm[j][l], Log1pExp(Add(Gm[q][l], Mm[i][j])))], Q))]]
  ELSE lt

\* one pass of the q,l loops for the stored entry (i,j) of R (lines 240-244)
PenaltyVisit(lt, i, j, Mm, Zm, Gm) ==
  [lt EXCEPT ![i] = [q \in Clusters |->
     Sub(lt[i][q], SumTo([l \in Clusters |->
        Mul(Zm[j][l], Log1pExp(Add(Gm[q][l], Mm[i][j])))], Q))]]

RECURSIVE PenaltyLoop(_, _, _, _, _, _)
\* for(; Rij != Rij_end; ++Rij): every stored entry of R, from the k-th on
PenaltyLoop(lt, s, k, Mm, Zm, Gm) ==
  IF k > Len(s) THEN lt
  ELSE PenaltyLoop(PenaltyVisit(lt, s[k][1], s[k][2], Mm, Zm, Gm), s, k + 1, Mm, Zm, Gm)

\* the matrix log_tau before the softmax (lines 237-247)
LogTau_undirected_covariates(Ym, Rm, Mm, Zm, Gm, p) ==
  AddLogPi(PenaltyLoop(MatMul(SpMul(Ym, Zm), Gm), Stored(Rm), 1, Mm, Zm, Gm), p)

E_step_sparse_bernoulli_undirected_covariates(Ym, Rm, Mm, Zm, Gm, p) ==
  EachRowSoftmax(LogTau_undirected_covariates(Ym, Rm, Mm, Zm, Gm, p))

\* ------------------------------------------------------------ M-step, covariates
ParamLen == Q * Q + K

\* What &param[0] .. &param[Q*Q+K-1] holds: the elements of param, and past
\* its end whatever lies in memory there (garbage, chosen by the caller of
\* this operator); no length is compared before the copy (lines 268-269).
ReadParam(p, garbage) ==
  [x \in 1..ParamLen |-> IF x <= Len(p) THEN p[x] ELSE garbage[x]]

\* arma::mat gamma(&param[0], Q, Q, true): column-major
GammaOf(mem) == [q \in Clusters |-> [l \in Clusters |-> mem[(l - 1) * Q + q]]]
\* arma::vec beta(&param[Q*Q], K, true)
BetaOf(mem)  == [k \in Slices |-> mem[Q * Q + k]]

\* as_scalar(beta.t() * phi), phi = X.tube(i, j)
Mu(beta, Xc, i, j) == SumTo([k \in Slices |-> Mul(beta[k], Xc[i][j][k])], K)

\* Z.row(i).t() * Z.row(j)
Outer(Zm, i, j) == [q \in Clusters |-> [l \in Clusters |-> Mul(Zm[i][q], Zm[j][l])]]

\* accu(ZiqZjl % ( Y(i,j) * (gamma + mu) - log(1 + exp(gamma + mu)) ))
LoglikTerm(gamma, beta, Ym, Xc, Zm, i, j) ==
  LET mu == Mu(beta, Xc, i, j)
      zz == Outer(Zm, i, j)
  IN  Accu([q \in Clusters |-> [l \in Clusters |->
        Mul(zz[q][l], Sub(Mul(Int2D(Ym[i][j]), Add(gamma[q][l], mu)),
                          Log1pExp(Add(gamma[q][l], mu))))]], Q, Q)

\* delta = ZiqZjl % (Y(i,j) - 1 / (1 + exp(-(gamma + mu))))
Delta(gamma, beta, Ym, Xc, Zm, i, j) ==
  LET mu == Mu(beta, Xc, i, j)
      zz == Outer(Zm, i, j)
  IN  [q \in Clusters |-> [l \in Clusters |->
        Mul(zz[q][l], Sub(Int2D(Ym[i][j]),
                          Div(One, Add(One, Exp(Neg(Add(gamma[q][l], mu)))))))]]

\* double loglik = 0; gr_gamma = zeros(Q,Q); gr_beta = zeros(K)
LoglikInit == Zero
AccInit ==
  [loglik   |-> LoglikInit,
   gr_gamma |-> [q \in Clusters |-> [l \in Clusters |-> Zero]],
   gr_beta  |-> [k \in Slices |-> Zero]]

\* faulty variant: every stored entry of R contributes, above the diagonal too
GradVisit_mut_all(acc, gamma, beta, Ym, Xc, Zm, i, j) ==
  LET d == Delta(gamma, beta, Ym, Xc, Zm, i, j) IN
  [loglik   |-> Add(acc.loglik, LoglikTerm(gamma, beta, Ym, Xc, Zm, i, j)),
   gr_gamma |-> [q \in Clusters |-> [l \in Clusters |-> Add(acc.gr_gamma[q][l], d[q][l])]],
   gr_beta  |-> [k \in Slices |-> Add(acc.gr_beta[k], Mul(Accu(d, Q, Q), Xc[i][j][k]))]]

\* the body of the loop over R for the stored entry (i,j) (lines 280-288)
GradVisit(acc, gamma, beta, Ym, Xc, Zm, i, j) ==
  IF i > j
  THEN LET d == Delta(gamma, beta, Ym, Xc, Zm, i, j) IN
       [loglik   |-> Add(acc.loglik, LoglikTerm(gamma, beta, Ym, Xc, Zm, i, j)),
        gr_gamma |-> [q \in Clusters |-> [l \in Clusters |-> Add(acc.gr_gamma[q][l], d[q][l])]],
        gr_beta  |-> [k \in Slices |-> Add(acc.gr_beta[k], Mul(Accu(d, Q, Q), Xc[i][j][k]))]]
  ELSE acc

RECURSIVE GradLoop(_, _, _, _, _, _, _, _)
GradLoop(acc, s, n, gamma, beta, Ym, Xc, Zm) ==
  IF n > Len(s) THEN acc
  ELSE GradLoop(GradVisit(acc, gamma, beta, Ym, Xc, Zm, s[n][1], s[n][2]),
                s, n + 1, gamma, beta, Ym, Xc, Zm)

\* join_cols(vectorise(gr_gamma), gr_beta), negated, and - loglik
M_step_sparse_bernoulli_undirected_covariates(mem, Ym, Rm, Xc, Zm) ==
  LET acc == GradLoop(AccInit, Stored(Rm), 1, GammaOf(mem), BetaOf(mem), Ym, Xc, Zm) IN
  [objective |-> Neg(acc.loglik),
   gradient  |-> [x \in 1..ParamLen |->
                    IF x <= Q * Q
                    THEN Neg(acc.gr_gamma[((x - 1) % Q) + 1][((x - 1) \div Q) + 1])
                    ELSE Neg(acc.gr_beta[x - Q * Q])]]

\* ------------------------------------------------------------ modelled domain
\* Log(v) has a value in the model
LogOK(v) == v.k # "fin" \/ (IsRat(v) /\ (v.q[1] <= 0 \/ Smooth(v.q)))

ThetaOK(th) ==
  \A q, l \in Clusters :
    /\ th[q][l].k = "fin" => IsRat(th[q][l])
    /\ LogOK(Sub(One, th[q][l]))
    /\ LogOK(Div(th[q][l], Sub(One, th[q][l])))

PiOK(p) == \A q \in Clusters : LogOK(p[q])

\* the softmax of every row of lt has a value in the model
ScoresOK(lt) ==
  \A i \in Nodes : \A q1 \in Clusters :
    lt[i][q1].k = "fin" =>
      /\ IsIntE(lt[i][q1].e)
      /\ \A q2 \in Clusters : lt[i][q2].k = "fin" => lt[i][q2].q = lt[i][q1].q

\* ------------------------------------------------------------ inputs
Dyads  == {p \in Nodes \X Nodes : p[1] # p[2]}
Sym(S) == S \cup {<<p[2], p[1]>> : p \in S}
Lower  == {p \in Dyads : p[1] > p[2]}
SpOf(S) == [i \in Nodes |-> [j \in Nodes |-> IF <<i, j>> \in S THEN 1 ELSE 0]]

NoN == {p \in Dyads : p[1] # N /\ p[2] # N}
Loop == {<<1, 1>>}

\* <<stored entries of Y, stored entries of R>>
Graphs ==
  { <<{}, Dyads>>,                                   \* fully observed, no edge
    <<Dyads, Dyads>>,                                \* fully observed, complete
    <<Sym({<<1, N>>}), Dyads>>,                      \* one edge, between nodes 1 and N
    <<Lower, Dyads>>,                                \* Y not symmetric
    <<Sym({<<1, N>>}), Dyads \ Sym({<<1, 2>>})>>,    \* one dyad not observed
    <<Sym({<<1, 2>>}), Dyads \ Sym({<<1, 2>>})>>,    \* an edge on a dyad R does not hold
    <<Sym({<<1, 2>>}) \cap NoN, NoN>>,               \* node N never observed
    <<{}, {}>>,                                      \* nothing observed
    <<Sym({<<1, 2>>}), {}>>,                         \* edges, nothing observed
    <<Lower \cap Sym({<<1, N>>}), Lower>>,           \* R not symmetric
    <<Sym({<<1, N>>}), Dyads \cup Loop>>,            \* a self-loop stored in R
    <<Dyads \cup Loop, Dyads \cup Loop>> }           \* a self-loop stored in Y and R

Hard(f) == [i \in Nodes |-> [q \in Clusters |-> IF f[i] = q THEN One ELSE Zero]]
RoundRobin == [i \in Nodes |-> ((i - 1) % Q) + 1]
\* the first t nodes in cluster 1, the others dealt over the remaining clusters
Split(t) == [i \in Nodes |-> IF i <= t THEN 1 ELSE ((i - t - 1) % (Q - 1)) + 2]

ZChoices ==
  { Hard(Split(t)) : t \in 0..N }
  \cup { [i \in Nodes |-> [q \in Clusters |-> Num(1, Q)]],                         \* uniform
         [i \in Nodes |-> [q \in Clusters |->
             IF i = 1 THEN (IF q <= 2 THEN Half ELSE Zero) ELSE Hard(RoundRobin)[i][q]]],
         [i \in Nodes |-> [q \in Clusters |-> Add(Hard(RoundRobin)[i][q], Hard(RoundRobin)[i][q])]] }

Mk(a, b, c) == [q \in Clusters |-> [l \in Clusters |-> IF q = l THEN a ELSE IF q < l THEN b ELSE c]]
MkM(a, b, c) ==
  [i \in Nodes |-> [j \in Nodes |->
     IF i = j THEN Zero ELSE IF {i, j} = {1, 2} THEN a ELSE IF i < j THEN b ELSE c]]
XOnes   == [i \in Nodes |-> [j \in Nodes |-> [k \in Slices |-> One]]]
XParity == [i \in Nodes |-> [j \in Nodes |-> [k \in Slices |-> Int2D((i + j + k) % 2)]]]
MkParam(G, b, len) ==
  [x \in 1..len |-> IF x <= Q * Q THEN G[((x - 1) % Q) + 1][((x - 1) \div Q) + 1] ELSE b]

PiUnif == [q \in Clusters |-> Num(1, Q)]
PiSkew == [q \in Clusters |-> IF q = 1 THEN Num(Q + 1, 2 * Q) ELSE Num(1, 2 * Q)]
PiZero == [q \in Clusters |-> IF q = 1 THEN One ELSE Zero]

Ln(n, d) == Log(Num(n, d))

Choice(th, p, ll, G, Mm, Xc, par) ==
  [theta |-> th, pi |-> p, ll |-> ll, Gamma |-> G, M |-> Mm, X |-> Xc, param |-> par]

GSym  == Mk(Ln(2, 1), Ln(1, 2), Ln(1, 2))
GZero == Mk(Zero, Zero, Zero)
GAsym == Mk(Zero, Ln(2, 1), Ln(1, 2))
MZero == MkM(Zero, Zero, Zero)
MSym  == MkM(Ln(2, 1), Zero, Zero)
MAsym == MkM(Zero, Ln(2, 1), Ln(1, 2))

ParamChoices ==
  { Choice(Mk(Num(1, 2), Num(1, 4), Num(1, 4)), PiUnif, Zero, GSym,  MZero, XOnes,   MkParam(GSym, Ln(2, 1), ParamLen)),
    Choice(Mk(Num(2, 3), Num(1, 3), Num(1, 3)), PiSkew, One,  GZero, MSym,  XParity, MkParam(GZero, Zero, ParamLen)),
    Choice(Mk(Num(1, 2), Num(1, 4), Num(3, 4)), PiUnif, Zero, GAsym, MZero, XOnes,   MkParam(GAsym, Ln(2, 1), ParamLen - 1)),
    Choice(Mk(Num(3, 4), Num(1, 2), Num(1, 2)), PiZero, Zero, GSym,  MAsym, XParity, MkParam(GSym, Ln(1, 2), ParamLen + 1)),
    Choice(Mk(One, Num(1, 2), Num(1, 2)),       PiUnif, Zero, GSym,  MSym,  XParity, MkParam(GAsym, Ln(1, 2), ParamLen)),
    Choice(Mk(Num(1, 2), Zero, Zero),           PiSkew, Zero, GZero, MZero, XOnes,   MkParam(GSym, Zero, ParamLen - 1)) }

\* what a read past the end of param may find
Garbage == {Zero, Ln(1, 2), Ln(2, 1)}

NoRet == [op |-> "none", status |-> "none", val |-> Zero]

Init ==
  \E g \in Graphs, z \in ZChoices, c \in ParamChoices :
    /\ Y = SpOf(g[1]) /\ R = SpOf(g[2]) /\ Z = z
    /\ theta = c.theta /\ pi = c.pi /\ log_lambda = c.ll
    /\ M = c.M /\ Gamma = c.Gamma /\ X = c.X /\ param = c.param
    /\ ret = NoRet /\ hist = {} /\ pc = "call"

\* ------------------------------------------------------------ calls
\* a call is modelled where its operands lie in the modelled domain
Modelled(b) == b = TRUE

\* Every argument is a const reference, param is passed by value and never
\* written: a call leaves the caller's objects as they were and yields ret.
Return(name, v) == ret' = [op |-> name, status |-> "ok", val |-> v] /\ UNCHANGED inputs

Do_vLL_undirected_nocovariate ==
  /\ Modelled(ThetaOK(theta) /\ PiOK(pi))
  /\ Return("vLL_undirected_nocovariate",
            vLL_complete_sparse_bernoulli_undirected_nocovariate(Y, R, Z, theta, pi))

Do_vLL_directed_nocovariate ==
  /\ Modelled(ThetaOK(theta) /\ PiOK(pi))
  /\ Return("vLL_directed_nocovariate",
            vLL_complete_sparse_bernoulli_directed_nocovariate(Y, R, Z, theta, pi))

Do_vLL_undirected_covariates ==
  /\ Modelled(PiOK(pi))
  /\ Return("vLL_undirected_covariates",
            vLL_complete_sparse_bernoulli_undirected_covariates(Y, R, M, Z, Gamma, pi))

Do_vLL_directed_covariates ==
  /\ Modelled(PiOK(pi))
  /\ Return("vLL_directed_covariates",
            vLL_complete_sparse_bernoulli_directed_covariates(Y, R, M, Z, Gamma, pi))

Do_M_step_undirected_nocovariate ==
  Return("M_step_undirected_nocovariate", M_step_sparse_bernoulli_undirected_nocovariate(Y, R, Z))

Do_M_step_directed_nocovariate ==
  Return("M_step_directed_nocovariate", M_step_sparse_bernoulli_directed_nocovariate(Y, R, Z))

Do_M_step_directed_covariates ==
  Return("M_step_directed_covariates", M_step_sparse_bernoulli_directed_covariates(Y, R, Z))

Do_E_step_undirected_nocovariate ==
  /\ Modelled(ThetaOK(theta) /\ PiOK(pi)
              /\ ScoresOK(LogTau_undirected_nocovariate(Y, R, Z, theta, pi, log_lambda)))
  /\ Return("E_step_undirected_nocovariate",
            E_step_sparse_bernoulli_undirected_nocovariate(Y, R, Z, theta, pi, log_lambda))

Do_E_step_directed_nocovariate ==
  /\ Modelled(ThetaOK(theta) /\ PiOK(pi)
              /\ ScoresOK(LogTau_directed_nocovariate(Y, R, Z, theta, pi, log_lambda)))
  /\ Return("E_step_directed_nocovariate",
            E_step_sparse_bernoulli_directed_nocovariate(Y, R, Z, theta, pi, log_lambda))

Do_E_step_undirected_covariates ==
  /\ Modelled(PiOK(pi) /\ ScoresOK(LogTau_undirected_covariates(Y, R, M, Z, Gamma, pi)))
  /\ Return("E_step_undirected_covariates",
            E_step_sparse_bernoulli_undirected_covariates(Y, R, M, Z, Gamma, pi))

Do_M_step_undirected_covariates ==
  \E garbage \in [(Len(param) + 1)..ParamLen -> Garbage] :
    Return("M_step_undirected_covariates",
           M_step_sparse_bernoulli_undirected_covariates(ReadParam(param, garbage), Y, R, X, Z))

\* pure functions, called once each on the inputs Init drew
Call(A) == pc = "call" /\ A /\ pc' = "done" /\ UNCHANGED hist

Call_vLL_undirected_nocovariate   == Call(Do_vLL_undirected_nocovariate)
Call_vLL_directed_nocovariate     == Call(Do_vLL_directed_nocovariate)
Call_vLL_undirected_covariates    == Call(Do_vLL_undirected_covariates)
Call_vLL_directed_covariates      == Call(Do_vLL_directed_covariates)
Call_M_step_undirected_nocovariate == Call(Do_M_step_undirected_nocovariate)
Call_M_step_directed_nocovariate  == Call(Do_M_step_directed_nocovariate)
Call_M_step_directed_covariates   == Call(Do_M_step_directed_covariates)
Call_E_step_undirected_nocovariate == Call(Do_E_step_undirected_nocovariate)
Call_E_step_directed_nocovariate  == Call(Do_E_step_directed_nocovariate)
Call_E_step_undirected_covariates == Call(Do_E_step_undirected_covariates)
Call_M_step_undirected_covariates == Call(Do_M_step_undirected_covariates)

Next ==
  \/ Call_vLL_undirected_nocovariate
  \/ Call_vLL_directed_nocovariate
  \/ Call_vLL_undirected_covariates
  \/ Call_vLL_directed_covariates
  \/ Call_M_step_undirected_nocovariate
  \/ Call_M_step_directed_nocovariate
  \/ Call_M_step_directed_covariates
  \/ Call_E_step_undirected_nocovariate
  \/ Call_E_step_directed_nocovariate
  \/ Call_E_step_undirected_covariates
  \/ Call_M_step_undirected_covariates

Spec == Init /\ [][Next]_vars

\* ------------------------------------------------------------ vocabulary of the claims
IsSymSp(A)  == \A i, j \in Nodes : A[i][j] = A[j][i]
ZeroDiag(A) == \A i \in Nodes : A[i][i] = 0
Binary(A)   == \A i, j \in Nodes : A[i][j] \in {0, 1}
YWithinR    == \A i, j \in Nodes : Y[i][j] # 0 => R[i][j] = 1
SymGraph    == IsSymSp(Y) /\ IsSymSp(R) /\ ZeroDiag(Y) /\ ZeroDiag(R)
Undirected  == SymGraph /\ Binary(Y) /\ Binary(R) /\ YWithinR

IsHard(Zm) == \A i \in Nodes : \E q \in Clusters :
                 Zm[i][q] = One /\ \A l \in Clusters \ {q} : Zm[i][l] = Zero
NonNeg(v)  == IsRat(v) /\ v.q[1] >= 0
RowStochastic(Zm) ==
  \A i \in Nodes : (\A q \in Clusters : NonNeg(Zm[i][q])) /\ SumTo(Zm[i], Q) = One
Inside01(v) == IsRat(v) /\ 0 < v.q[1] /\ v.q[1] < v.q[2]
ThetaInside(th) == \A q, l \in Clusters : Inside01(th[q][l])
PiPositive(p)   == \A q \in Clusters : IsRat(p[q]) /\ p[q].q[1] > 0
AllFinite(A)    == \A i \in Nodes : \A q \in Clusters : IsFinite(A[i][q])

\* unordered dyads with one end in cluster q and the other in cluster l (Z hard)
Between(q, l) ==
  {d \in Nodes \X Nodes : /\ d[1] < d[2]
                          /\ \/ Z[d[1]][q] = One /\ Z[d[2]][l] = One
                             \/ Z[d[1]][l] = One /\ Z[d[2]][q] = One}
EdgeCount(q, l) == Cardinality({d \in Between(q, l) : Y[d[1]][d[2]] = 1})
DyadCount(q, l) == Cardinality({d \in Between(q, l) : R[d[1]][d[2]] = 1})

\* (Z'AZ)[q,l] written out as the double sum over all ordered pairs
QuadForm(A, q, l) ==
  SumTo([i \in Nodes |-> SumTo([j \in Nodes |->
     Mul(Mul(Z[i][q], Int2D(A[i][j])), Z[j][l])], N)], N)

MStepOps == {"M_step_undirected_nocovariate", "M_step_directed_nocovariate"}
EStepOps == {"E_step_undirected_nocovariate", "E_step_directed_nocovariate",
             "E_step_undirected_covariates"}
LogTauOf(name) ==
  CASE name = "E_step_undirected_nocovariate" ->
         LogTau_undirected_nocovariate(Y, R, Z, theta, pi, log_lambda)
    [] name = "E_step_directed_nocovariate" ->
         LogTau_directed_nocovariate(Y, R, Z, theta, pi, log_lambda)
    [] OTHER -> LogTau_undirected_covariates(Y, R, M, Z, Gamma, pi)

\* ------------------------------------------------------------ repeated calls
\* The same functions called any number of times on inputs the caller keeps;
\* hist records every call made: the function, the inputs as they were when
\* it was called, and what it returned.
PureGraphs == { <<Sym({<<1, N>>}), Dyads>>, <<Sym({<<1, 2>>}), Dyads \ Sym({<<1, 2>>})>> }
PureZs     == { Hard(RoundRobin), [i \in Nodes |-> [q \in Clusters |-> Num(1, Q)]] }

InitPure ==
  \E g \in PureGraphs, z \in PureZs, c \in ParamChoices :
    /\ Y = SpOf(g[1]) /\ R = SpOf(g[2]) /\ Z = z
    /\ theta = c.theta /\ pi = c.pi /\ log_lambda = c.ll
    /\ M = c.M /\ Gamma = c.Gamma /\ X = c.X /\ param = c.param
    /\ ret = NoRet /\ hist = {} /\ pc = "pure"

Logged(A) ==
  /\ pc = "pure" /\ A
  /\ hist' = hist \cup {[op |-> ret'.op, args |-> inputs, val |-> ret'.val]}
  /\ UNCHANGED pc

Again_vLL_undirected_covariates     == Logged(Do_vLL_undirected_covariates)
Again_M_step_undirected_nocovariate == Logged(Do_M_step_undirected_nocovariate)
Again_E_step_undirected_nocovariate == Logged(Do_E_step_undirected_nocovariate)
Again_M_step_undirected_covariates  == Logged(Do_M_step_undirected_covariates)

NextPure ==
  \/ Again_vLL_undirected_covariates
  \/ Again_M_step_undirected_nocovariate
  \/ Again_E_step_undirected_nocovariate
  \/ Again_M_step_undirected_covariates

SpecPure == InitPure /\ [][NextPure]_vars

\* ------------------------------------------------------------ EM alternation
\* The caller's loop: e_step with the current theta, Z replaced by the tau
\* returned; m_step with that Z, theta replaced by the value returned.
\* Y, R and pi stay as they are.  An e_step is taken where its operands
\* lie in the modelled domain.
InitEM ==
  \E g \in {h \in Graphs : h[1] \subseteq h[2] /\ h[2] \cap Loop = {}},
     z \in ZChoices, c \in ParamChoices :
    /\ Y = SpOf(g[1]) /\ R = SpOf(g[2]) /\ Z = z
    /\ theta = c.theta /\ pi = c.pi /\ log_lambda = c.ll
    /\ M = c.M /\ Gamma = c.Gamma /\ X = c.X /\ param = c.param
    /\ RowStochastic(z) /\ ThetaInside(c.theta)
    /\ \A q \in Clusters : Inside01(c.pi[q])
    /\ ret = NoRet /\ hist = {} /\ pc = "e"

EM_E_step ==
  /\ pc = "e"
  /\ Modelled(ThetaOK(theta) /\ PiOK(pi)
              /\ ScoresOK(LogTau_undirected_nocovariate(Y, R, Z, theta, pi, log_lambda)))
  /\ LET tau == E_step_sparse_bernoulli_undirected_nocovariate(Y, R, Z, theta, pi, log_lambda)
     IN  /\ ret' = [op |-> "E_step_undirected_nocovariate", status |-> "ok", val |-> tau]
         /\ Z' = tau
  /\ pc' = "m"
  /\ UNCHANGED <<Y, R, theta, pi, log_lambda, M, Gamma, X, param, hist>>

EM_M_step ==
  /\ pc = "m"
  /\ LET th == M_step_sparse_bernoulli_undirected_nocovariate(Y, R, Z)
     IN  /\ ret' = [op |-> "M_step_undirected_nocovariate", status |-> "ok", val |-> th]
         /\ theta' = th
  /\ pc' = "e"
  /\ UNCHANGED <<Y, R, Z, pi, log_lambda, M, Gamma, X, param, hist>>

NextEM == EM_E_step \/ EM_M_step

SpecEM == InitEM /\ [][NextEM]_vars

\* ------------------------------------------------------------ claims
\* C1: on an undirected graph with a hard assignment Z, m_step returns for
\* every cluster pair (q,l) with at least one observed dyad the number of
\* edges between q and l over the number of observed dyads between them,
\* unordered dyads counted once, on the diagonal q = l as off it.
C1_EdgeDensity ==
  (ret.op = "M_step_undirected_nocovariate" /\ Undirected /\ IsHard(Z)) =>
    \A q, l \in Clusters :
      DyadCount(q, l) > 0 => ret.val[q][l] = Num(EdgeCount(q, l), DyadCount(q, l))

\* the N = 3, Q = 2 scenario: one edge over two cross-cluster dyads, none within
C1_Witness ==
  /\ ret.op = "M_step_undirected_nocovariate" /\ Undirected /\ IsHard(Z)
  /\ DyadCount(1, 1) > 0 /\ ret.val[1][1] = Zero
  /\ EdgeCount(1, 2) = 1 /\ DyadCount(1, 2) = 2
  /\ ret.val[1][2] = Half /\ ret.val[2][1] = Half

\* C6: where (Z'RZ)[q,l] is zero the closed-form m_step returns NaN when
\* the numerator is zero too and Inf otherwise, as a value, without an error.
C6_EmptyPairNonFinite ==
  ret.op \in MStepOps =>
    /\ ret.status = "ok"
    /\ \A q, l \in Clusters :
         QuadForm(R, q, l) = Zero =>
           /\ ~IsFinite(ret.val[q][l])
           /\ QuadForm(Y, q, l) = Zero => ret.val[q][l] = NaN
           /\ Sign(QuadForm(Y, q, l)) > 0 => ret.val[q][l] = PInf

C6_Witness ==
  /\ ret.op \in MStepOps
  /\ \E q, l \in Clusters :
       QuadForm(R, q, l) = Zero /\ QuadForm(Y, q, l) = Zero /\ ret.val[q][l] = NaN
  /\ \E q, l \in Clusters :
       QuadForm(R, q, l) = Zero /\ Sign(QuadForm(Y, q, l)) > 0 /\ ret.val[q][l] = PInf

\* C2: whenever the log-scores of an E-step (any of the three variants) are
\* all finite, every row of the returned tau is non-negative and sums to 1;
\* Z need not be row-stochastic.
C2_TauRowStochastic ==
  (ret.op \in EStepOps /\ AllFinite(LogTauOf(ret.op))) => RowStochastic(ret.val)

C2_Witness ==
  /\ ret.op = "E_step_undirected_covariates" /\ AllFinite(LogTauOf(ret.op))
  /\ ~RowStochastic(Z) /\ RowStochastic(ret.val)
  /\ \E i \in Nodes : \E q, l \in Clusters : ret.val[i][q] # ret.val[i][l]

\* C3 as stated: theta strictly inside (0,1) and a row-stochastic Z make
\* complete_loglik finite, whatever mixing vector pi is passed.
C3_FiniteForAnyPi ==
  (/\ ret.op \in {"vLL_undirected_nocovariate", "vLL_directed_nocovariate"}
   /\ ThetaInside(theta) /\ RowStochastic(Z)) => IsFinite(ret.val)

\* C3 (amended): theta strictly inside (0,1), a row-stochastic Z and a pi
\* with strictly positive entries make complete_loglik (undirected and
\* directed) finite.
C3_FiniteLoglik ==
  (/\ ret.op \in {"vLL_undirected_nocovariate", "vLL_directed_nocovariate"}
   /\ ThetaInside(theta) /\ RowStochastic(Z) /\ PiPositive(pi)) => IsFinite(ret.val)

C3_Witness ==
  /\ ret.op = "vLL_undirected_nocovariate"
  /\ ThetaInside(theta) /\ RowStochastic(Z) /\ ~IsHard(Z) /\ PiPositive(pi)
  /\ IsFinite(ret.val) /\ ret.val # Zero

IsSymQ(A) == \A q, l \in Clusters : A[q][l] = A[l][q]
IsSymN(A) == \A i, j \in Nodes : A[i][j] = A[j][i]
Twice(v)  == Mul(Int2D(2), v)

\* C4: on a graph symmetric in Y and R with a zero diagonal, for the same Z
\* and pi, the directed likelihood minus the prior term sum(Z log pi) is
\* twice the undirected likelihood minus the same prior term: without
\* covariates for the same theta, with covariates for the same symmetric M
\* and symmetric Gamma.
C4_FactorTwo ==
  /\ (ret.op = "vLL_directed_nocovariate" /\ SymGraph /\ IsFinite(ret.val)) =>
       Sub(ret.val, PriorTerm(Z, pi)) =
         Twice(Sub(vLL_complete_sparse_bernoulli_undirected_nocovariate(Y, R, Z, theta, pi),
                   PriorTerm(Z, pi)))
  /\ (ret.op = "vLL_directed_covariates" /\ SymGraph /\ IsSymN(M) /\ IsSymQ(Gamma)
        /\ IsFinite(ret.val)) =>
       Sub(ret.val, PriorTerm(Z, pi)) =
         Twice(Sub(vLL_complete_sparse_bernoulli_undirected_covariates(Y, R, M, Z, Gamma, pi),
                   PriorTerm(Z, pi)))

C4_Witness ==
  /\ ret.op = "vLL_directed_covariates" /\ SymGraph /\ IsSymN(M) /\ IsSymQ(Gamma)
  /\ M # MZero /\ Gamma # GZero /\ IsFinite(ret.val)
  /\ \E i, j \in Nodes : Y[i][j] # 0
  /\ Sub(ret.val, PriorTerm(Z, pi)) # Zero

\* C5: a param vector whose length is not Q*Q+K is rejected by
\* m_step_cov_objective_gradient with a dimension-mismatch error; no result
\* is computed from it.
C5_ShapeMismatchRejected ==
  (ret.op = "M_step_undirected_covariates" /\ Len(param) # ParamLen) =>
    ret.status = "dimension_mismatch"

RECURSIVE SumOver(_, _)
\* the sum of f over the finite set S
SumOver(S, f) ==
  IF S = {} THEN Zero
  ELSE LET x == CHOOSE y \in S : TRUE IN Add(f[x], SumOver(S \ {x}, f))

\* the dyads the covariate M-step is said to visit
VisitedDyads == {d \in Nodes \X Nodes : R[d[1]][d[2]] # 0 /\ d[1] > d[2]}

\* C8: m_step_cov_objective_gradient accumulates one contribution for each
\* stored entry (i,j) of R with i > j and none for any other dyad; the
\* objective is minus the sum of the per-dyad log-densities, the gradient
\* has length Q*Q+K, its first Q*Q entries minus the sum of the residual
\* matrices delta in column-major order, its last K entries minus the sum
\* of sum(delta)*phi (for the Gamma and beta the call read from param).
C8_ObjectiveGradient ==
  ret.op = "M_step_undirected_covariates" =>
    \E garbage \in [(Len(param) + 1)..ParamLen -> Garbage] :
      LET gamma == GammaOf(ReadParam(param, garbage))
          beta  == BetaOf(ReadParam(param, garbage))
          ll    == [d \in VisitedDyads |-> LoglikTerm(gamma, beta, Y, X, Z, d[1], d[2])]
          delta == [d \in VisitedDyads |-> Delta(gamma, beta, Y, X, Z, d[1], d[2])]
      IN  /\ ret.val.objective = Neg(SumOver(VisitedDyads, ll))
          /\ DOMAIN ret.val.gradient = 1..(Q * Q + K)
          /\ \A q, l \in Clusters :
               ret.val.gradient[(l - 1) * Q + q] =
                 Neg(SumOver(VisitedDyads, [d \in VisitedDyads |-> delta[d][q][l]]))
          /\ \A k \in Slices :
               ret.val.gradient[Q * Q + k] =
                 Neg(SumOver(VisitedDyads,
                       [d \in VisitedDyads |-> Mul(Accu(delta[d], Q, Q), X[d[1]][d[2]][k])]))

C8_Witness ==
  /\ ret.op = "M_step_undirected_covariates" /\ Len(param) = ParamLen
  /\ VisitedDyads # {}
  /\ \E i, j \in Nodes : i < j /\ R[i][j] # 0
  /\ \E i, j \in Nodes : i > j /\ Y[i][j] # 0 /\ R[i][j] = 0
  /\ ret.val.objective # Zero
  /\ \E x \in 1..ParamLen : ret.val.gradient[x] # Zero

\* the penalty node i is said to receive for cluster q
Penalty(i, q) ==
  SumOver({j \in Nodes : R[i][j] # 0},
          [j \in Nodes |-> SumTo([l \in Clusters |->
              Mul(Z[j][l], Log1pExp(Add(Gamma[q][l], M[i][j])))], Q)])

ScoreClosedForm ==
  [i \in Nodes |-> [q \in Clusters |->
     Add(Sub(MatMul(SpMul(Y, Z), Gamma)[i][q], Penalty(i, q)), Log(pi[q]))]]

\* C9: in e_step_cov every stored entry (i,j) of R, above or below the
\* diagonal, subtracts sum_l Z[j,l]*log(1+exp(Gamma[q,l]+M[i,j])) from the
\* score of node i for every q and from no other row; a node with no stored
\* entry in its row of R receives no penalty.
C9_PenaltyPerStoredEntry ==
  ret.op = "E_step_undirected_covariates" =>
    /\ LogTau_undirected_covariates(Y, R, M, Z, Gamma, pi) = ScoreClosedForm
    /\ ret.val = EachRowSoftmax(ScoreClosedForm)

C9_Witness ==
  /\ ret.op = "E_step_undirected_covariates" /\ IsSymSp(R)
  /\ \E i \in Nodes : \A j \in Nodes : R[i][j] = 0
  /\ \E i \in Nodes : \E q \in Clusters : Penalty(i, q) # Zero
  /\ AllFinite(ScoreClosedForm)

\* C7: every operation is a pure function of its inputs: a call leaves each
\* input as it was, and two calls with equal inputs return equal results
\* whatever was called in between.
C7_PureFunction ==
  /\ \A h \in hist : h.args = inputs
  /\ \A h1, h2 \in hist : (h1.op = h2.op /\ h1.args = h2.args) => h1.val = h2.val

\* C10 as stated: along the alternation every tau returned has non-negative
\* rows summing to 1 and every theta returned is finite and strictly inside
\* (0,1).
C10_AlwaysValid ==
  /\ pc = "m" => RowStochastic(Z)
  /\ ret.op = "M_step_undirected_nocovariate" => ThetaInside(theta)

In01OrNaN(v) == v = NaN \/ (IsRat(v) /\ 0 <= v.q[1] /\ v.q[1] <= v.q[2])

\* C10 (amended): an e_step called with a theta strictly inside (0,1) returns
\* a tau with non-negative rows summing to 1, and the m_step called with
\* such a tau returns a theta whose every entry is NaN or lies in the closed
\* interval [0,1].
C10_TauValidThetaClosed ==
  /\ (pc = "m" /\ ThetaInside(theta)) => RowStochastic(Z)
  /\ (pc = "e" /\ ret.op = "M_step_undirected_nocovariate" /\ RowStochastic(Z)) =>
       \A q, l \in Clusters : In01OrNaN(theta[q][l])

C10_Witness ==
  /\ pc = "e" /\ ret.op = "M_step_undirected_nocovariate"
  /\ RowStochastic(Z) /\ ~IsHard(Z)
  /\ \E q, l \in Clusters : Inside01(theta[q][l])

====
